---- MODULE Spec2Model ----
(***************************************************************************)
(* Model of the drizzle-graphql type converter (column -> GraphQL type),   *)
(* its enum registry, the JSON scalar, the selection resolver and the      *)
(* per-table type synthesis.                                               *)
(*                                                                         *)
(* Strings whose characters the code inspects (column names, enum          *)
(* literals, stored JSON text) are sequences of one-character strings.     *)
(* GraphQL types are records [wrap, base, obj]: wrap is the chain of       *)
(* List/NonNull wrappers from the outside in, base the named type at the   *)
(* bottom and obj the identity of the enum type object (0 for the          *)
(* singleton scalars and objects).                                         *)
(***************************************************************************)
EXTENDS Integers, Sequences, FiniteSets, TLC

VARIABLES
    enumMap,    \* the WeakMap column -> GraphQLEnumType (object id)
    heap,       \* the GraphQLEnumType objects constructed so far, by id
    last,       \* the last call made and what it returned or threw
    tables,     \* the table model: table name -> its columns, in order
    types,      \* the synthesized interfaces and object types, by name
    callers     \* the callers of generateEnumCached: where each one is, what it got

vars == <<enumMap, heap, last, tables, types, callers>>

(***************************************************************************)
(* Bounds of the model.                                                    *)
(***************************************************************************)
MaxEnumTypes == 2      \* enum type objects constructed in one behaviour
MaxArrayDepth == 2     \* nesting depth of generic array columns
MaxNameLen == 3        \* length of the generated column names
MaxJsonLen == 4        \* length of the generated stored strings
MaxFields == 3         \* fields requested in one selection node
MaxTypeKeys == 2       \* type-name keys of one fragment-indirected node

(***************************************************************************)
(* Characters and strings.                                                 *)
(***************************************************************************)
LowerOf ==
    [ch \in {"A","B","C","D","E","F","G","H","I","J","K","L","M","N","O","P","Q",
             "R","S","T","U","V","W","X","Y","Z"} |->
        CASE ch = "A" -> "a" [] ch = "B" -> "b" [] ch = "C" -> "c" [] ch = "D" -> "d"
          [] ch = "E" -> "e" [] ch = "F" -> "f" [] ch = "G" -> "g" [] ch = "H" -> "h"
          [] ch = "I" -> "i" [] ch = "J" -> "j" [] ch = "K" -> "k" [] ch = "L" -> "l"
          [] ch = "M" -> "m" [] ch = "N" -> "n" [] ch = "O" -> "o" [] ch = "P" -> "p"
          [] ch = "Q" -> "q" [] ch = "R" -> "r" [] ch = "S" -> "s" [] ch = "T" -> "t"
          [] ch = "U" -> "u" [] ch = "V" -> "v" [] ch = "W" -> "w" [] ch = "X" -> "x"
          [] ch = "Y" -> "y" [] ch = "Z" -> "z"]

UpperLetters == DOMAIN LowerOf
LowerLetters == {LowerOf[ch] : ch \in UpperLetters}
Digits == {"0","1","2","3","4","5","6","7","8","9"}

\* String.prototype.toLowerCase
toLowerCase(s) == [i \in 1..Len(s) |-> IF s[i] \in UpperLetters THEN LowerOf[s[i]] ELSE s[i]]

UpperOfChar(ch) ==
    IF ch \in LowerLetters THEN CHOOSE u \in UpperLetters : LowerOf[u] = ch ELSE ch

\* String.prototype.includes
includes(s, t) ==
    \E i \in 0..(Len(s) - Len(t)) : SubSeq(s, i + 1, i + Len(t)) = t

\* String.prototype.endsWith
endsWith(s, t) ==
    /\ Len(t) <= Len(s)
    /\ SubSeq(s, Len(s) - Len(t) + 1, Len(s)) = t

\* const allowedNameChars = /^[a-zA-Z0-9_]+$/;  (the test of a string against it)
allowedNameCharsTest(e) ==
    /\ Len(e) >= 1
    /\ \A i \in 1..Len(e) : e[i] \in UpperLetters \cup LowerLetters \cup Digits \cup {"_"}

DigitChar(d) ==
    CASE d = 0 -> "0" [] d = 1 -> "1" [] d = 2 -> "2" [] d = 3 -> "3" [] d = 4 -> "4"
      [] d = 5 -> "5" [] d = 6 -> "6" [] d = 7 -> "7" [] d = 8 -> "8" [] d = 9 -> "9"

RECURSIVE NumberToString(_)
\* the decimal text a template literal gives a non-negative index
NumberToString(n) ==
    IF n < 10 THEN <<DigitChar(n)>>
    ELSE NumberToString(n \div 10) \o <<DigitChar(n % 10)>>

\* capitalize of ../case-ops: the first character upper-cased
capitalize(s) ==
    IF Len(s) = 0 THEN s ELSE <<UpperOfChar(s[1])>> \o SubSeq(s, 2, Len(s))

(***************************************************************************)
(* GraphQL types and descriptions.                                         *)
(***************************************************************************)
T(wrap, base, obj) == [wrap |-> wrap, base |-> base, obj |-> obj]

GraphQLBoolean == T(<< >>, "Boolean", 0)
GraphQLString == T(<< >>, "String", 0)
GraphQLInt == T(<< >>, "Int", 0)
GraphQLFloat == T(<< >>, "Float", 0)
GraphQLJSON == T(<< >>, "JSON", 0)
geoXyType == T(<< >>, "PgGeometryObject", 0)
geoXyInputType == T(<< >>, "PgGeometryObjectInput", 0)
NoType == T(<< >>, "none", 0)

\* new GraphQLList(t), new GraphQLNonNull(t)
GraphQLList(t) == [t EXCEPT !.wrap = <<"List">> \o @]
\* the type itself, without the non-null wrapper
GraphQLNonNullDropped(t) == t
GraphQLNonNull(t) == [t EXCEPT !.wrap = <<"NonNull">> \o @]

\* a description is a sequence of text pieces; the empty one is `undefined`
NoDescription == << >>
TemplateText(d) == IF d = NoDescription THEN <<"undefined">> ELSE d

NoError == << >>
NotImplementedError(dataType) ==
    <<"Drizzle-GraphQL Error: Type ", dataType, " is not implemented!">>
TypeErrorOfUndefined == <<"TypeError: Cannot read properties of undefined">>

(***************************************************************************)
(* Column descriptors.  baseColumn is << >> (undefined) or <<column>>.     *)
(***************************************************************************)
Column(dataType, columnType, enumValues, notNull, hasDefault, defaultFn, baseColumn) ==
    [dataType |-> dataType, columnType |-> columnType, enumValues |-> enumValues,
     notNull |-> notNull, hasDefault |-> hasDefault, defaultFn |-> defaultFn,
     baseColumn |-> baseColumn]

\* is(column, PgInteger) || is(column, PgSerial) || is(column, MySqlInt)
\*   || is(column, MySqlSerial) || is(column, SQLiteInteger):
\* a column's entity kind is its columnType
IntegerColumnTypes == {"PgInteger", "PgSerial", "MySqlInt", "MySqlSerial", "SQLiteInteger"}
isIntegerColumn(column) == column.columnType \in IntegerColumnTypes

(***************************************************************************)
(* generateEnumCached                                                      *)
(***************************************************************************)
OptionText == <<"O","p","t","i","o","n">>

\* the key of one entry: allowedNameChars.test(e) ? e : `Option${index}`
EnumValueNameBuggyPrefix(e, index) ==
    IF allowedNameCharsTest(e) THEN e ELSE OptionText
EnumValueName(e, index) ==
    IF allowedNameCharsTest(e) THEN e ELSE OptionText \o NumberToString(index)

\* Object.fromEntries(enumValues.map((e, index) => [name, {value: e, ...}])):
\* one property per distinct key, holding the value of the last entry with that key
EnumValuesObject(enumValues) ==
    LET keyAt(i) == EnumValueName(enumValues[i], i - 1)
        keys == {keyAt(i) : i \in 1..Len(enumValues)}
        lastAt(k) == CHOOSE i \in 1..Len(enumValues) :
                        /\ keyAt(i) = k
                        /\ \A j \in 1..Len(enumValues) : keyAt(j) = k => j <= i
    IN [k \in keys |-> enumValues[lastAt(k)]]

\* the name without capitalize
EnumTypeNameAsGiven(columnName, tableName) ==
    tableName \o columnName \o <<"E","n","u","m">>
EnumTypeName(columnName, tableName) ==
    capitalize(tableName) \o capitalize(columnName) \o <<"E","n","u","m">>

\* new GraphQLEnumType({name, values})
NewEnumType(column, columnName, tableName) ==
    [name |-> EnumTypeName(columnName, tableName),
     values |-> EnumValuesObject(column.enumValues)]

\* the same without the enumMap.has(column) early return
generateEnumUncached(column, columnName, tableName, em, hp) ==
    [id |-> Len(hp) + 1,
     enumMap |-> [c \in DOMAIN em \cup {column} |-> IF c = column THEN Len(hp) + 1 ELSE em[c]],
     heap |-> Append(hp, NewEnumType(column, columnName, tableName))]

\* returns the enum type object's id and the registry and heap after the call
generateEnumCached(column, columnName, tableName, em, hp) ==
    IF column \in DOMAIN em
    THEN [id |-> em[column], enumMap |-> em, heap |-> hp]
    ELSE [id |-> Len(hp) + 1,
          enumMap |-> [c \in DOMAIN em \cup {column} |->
                          IF c = column THEN Len(hp) + 1 ELSE em[c]],
          heap |-> Append(hp, NewEnumType(column, columnName, tableName))]

(***************************************************************************)
(* isLikelyArrayColumn                                                     *)
(***************************************************************************)
arrayIndicators ==
    { <<"u","r","l","s">>, <<"i","d","s">>, <<"t","a","g","s">>, <<"i","t","e","m","s">>,
      <<"v","a","l","u","e","s">>, <<"e","n","t","r","i","e","s">>, <<"l","i","s","t">>,
      <<"a","r","r","a","y">>, <<"c","o","l","l","e","c","t","i","o","n">>,
      <<"s","e","t">>, <<"g","r","o","u","p">>, <<"b","a","t","c","h">> }

isLikelyArrayColumnCaseSensitive(columnName) ==
    \E indicator \in arrayIndicators :
        includes(columnName, indicator) \/ endsWith(columnName, <<"s">>)

isLikelyArrayColumn(columnName) ==
    LET lowerName == toLowerCase(columnName)
    IN \E indicator \in arrayIndicators :
          includes(lowerName, indicator) \/ endsWith(lowerName, <<"s">>)

(***************************************************************************)
(* columnToGraphQLCore: the result is the type and description returned,   *)
(* or the error thrown, and the registry and heap after the call.          *)
(***************************************************************************)
Returned(type, description, em, hp) ==
    [threw |-> FALSE, error |-> NoError, type |-> type, description |-> description,
     enumMap |-> em, heap |-> hp]
Thrown(error, em, hp) ==
    [threw |-> TRUE, error |-> error, type |-> NoType, description |-> NoDescription,
     enumMap |-> em, heap |-> hp]

RECURSIVE columnToGraphQLCore(_, _, _, _, _, _)
columnToGraphQLCore(column, columnName, tableName, isInput, em, hp) ==
    CASE column.dataType = "boolean" -> Returned(GraphQLBoolean, <<"Boolean">>, em, hp)
      [] column.dataType = "json" ->
            IF column.columnType = "PgGeometryObject"
            THEN Returned(IF isInput THEN geoXyInputType ELSE geoXyType,
                          <<"Geometry points XY">>, em, hp)
            ELSE IF column.columnType = "SQLiteTextJson"
            THEN IF isLikelyArrayColumn(columnName)
                 THEN Returned(GraphQLList(GraphQLString), <<"Array of strings (JSON)">>, em, hp)
                 ELSE Returned(GraphQLJSON, <<"JSON object">>, em, hp)
            ELSE Returned(GraphQLString, <<"JSON">>, em, hp)
      [] column.dataType = "date" -> Returned(GraphQLString, <<"Date">>, em, hp)
      [] column.dataType = "string" ->
            IF Len(column.enumValues) > 0
            THEN LET g == generateEnumCached(column, columnName, tableName, em, hp)
                 IN Returned(T(<< >>, "Enum", g.id), NoDescription, g.enumMap, g.heap)
            ELSE Returned(GraphQLString, <<"String">>, em, hp)
      [] column.dataType = "bigint" -> Returned(GraphQLString, <<"BigInt">>, em, hp)
      [] column.dataType = "number" ->
            IF isIntegerColumn(column)
            THEN Returned(GraphQLInt, <<"Integer">>, em, hp)
            ELSE Returned(GraphQLFloat, <<"Float">>, em, hp)
      [] column.dataType = "buffer" ->
            Returned(GraphQLList(GraphQLNonNull(GraphQLInt)), <<"Buffer">>, em, hp)
      [] column.dataType = "array" ->
            IF column.columnType = "PgVector"
            THEN Returned(GraphQLList(GraphQLNonNull(GraphQLFloat)), <<"Array<Float>">>, em, hp)
            ELSE IF column.columnType = "PgGeometry"
            THEN Returned(GraphQLList(GraphQLNonNull(GraphQLFloat)),
                          <<"Tuple<[Float, Float]>">>, em, hp)
            ELSE IF column.baseColumn = << >>
            THEN Thrown(TypeErrorOfUndefined, em, hp)
            ELSE LET innerType == columnToGraphQLCore(column.baseColumn[1], columnName,
                                                      tableName, isInput, em, hp)
                 IN IF innerType.threw THEN innerType
                    ELSE Returned(GraphQLList(GraphQLNonNull(innerType.type)),
                                  <<"Array<">> \o TemplateText(innerType.description) \o <<">">>,
                                  innerType.enumMap, innerType.heap)
      [] OTHER -> Thrown(NotImplementedError(column.dataType), em, hp)

(***************************************************************************)
(* drizzleColumnToGraphQLType                                              *)
(***************************************************************************)
noDesc == {"string", "boolean", "number"}

drizzleColumnToGraphQLTypeNoForce(column, columnName, tableName, forceNullable, defaultIsNullable, isInput, em, hp) ==
    LET core == columnToGraphQLCore(column, columnName, tableName, isInput, em, hp)
        typeDesc == IF column.dataType \in noDesc
                    THEN [core EXCEPT !.description = NoDescription] ELSE core
    IN IF core.threw THEN core
       ELSE IF column.notNull
               /\ ~(defaultIsNullable /\ (column.hasDefault \/ column.defaultFn))
       THEN [typeDesc EXCEPT !.type = GraphQLNonNull(typeDesc.type)]
       ELSE typeDesc

drizzleColumnToGraphQLTypeSwallow(column, columnName, tableName, forceNullable, defaultIsNullable, isInput, em, hp) ==
    LET core == columnToGraphQLCore(column, columnName, tableName, isInput, em, hp)
    IN IF core.threw THEN Returned(GraphQLString, NoDescription, em, hp)
       ELSE core

\* the same, every json column other than a geometry point taken for a
\* serialized-text JSON column
drizzleColumnToGraphQLTypeAnyJson(column, columnName, tableName, forceNullable, defaultIsNullable, isInput, em, hp) ==
    LET asText == IF column.dataType = "json" /\ column.columnType # "PgGeometryObject"
                  THEN [column EXCEPT !.columnType = "SQLiteTextJson"] ELSE column
        core == columnToGraphQLCore(asText, columnName, tableName, isInput, em, hp)
        typeDesc == IF column.dataType \in noDesc
                    THEN [core EXCEPT !.description = NoDescription] ELSE core
    IN IF core.threw THEN core
       ELSE IF forceNullable THEN typeDesc
       ELSE IF column.notNull
               /\ ~(defaultIsNullable /\ (column.hasDefault \/ column.defaultFn))
       THEN [typeDesc EXCEPT !.type = GraphQLNonNull(typeDesc.type)]
       ELSE typeDesc

\* the same, the error rethrown with the table and column names appended
drizzleColumnToGraphQLTypeLocated(column, columnName, tableName, forceNullable, defaultIsNullable, isInput, em, hp) ==
    LET core == columnToGraphQLCore(column, columnName, tableName, isInput, em, hp)
        typeDesc == IF column.dataType \in noDesc
                    THEN [core EXCEPT !.description = NoDescription] ELSE core
    IN IF core.threw THEN [core EXCEPT !.error = @ \o <<tableName, columnName>>]
       ELSE IF forceNullable THEN typeDesc
       ELSE IF column.notNull
               /\ ~(defaultIsNullable /\ (column.hasDefault \/ column.defaultFn))
       THEN [typeDesc EXCEPT !.type = GraphQLNonNull(typeDesc.type)]
       ELSE typeDesc

drizzleColumnToGraphQLType(column, columnName, tableName, forceNullable, defaultIsNullable, isInput, em, hp) ==
    LET core == columnToGraphQLCore(column, columnName, tableName, isInput, em, hp)
        typeDesc == IF column.dataType \in noDesc
                    THEN [core EXCEPT !.description = NoDescription] ELSE core
    IN IF core.threw THEN core
       ELSE IF forceNullable THEN typeDesc
       ELSE IF column.notNull
               /\ ~(defaultIsNullable /\ (column.hasDefault \/ column.defaultFn))
       THEN [typeDesc EXCEPT !.type = GraphQLNonNull(typeDesc.type)]
       ELSE typeDesc

(***************************************************************************)
(* The table model the calls are made on: literals, names and columns.     *)
(***************************************************************************)
LIKE == <<"L","I","K","E">>
DISLIKE == <<"D","I","S","L","I","K","E">>
Option1 == <<"O","p","t","i","o","n","1">>
InProgress == <<"i","n"," ","p","r","o","g","r","e","s","s">>
OnHold == <<"o","n","-","h","o","l","d">>

userName == <<"u","s","e","r">>
reactionName == <<"r","e","a","c","t","i","o","n">>
typeName == <<"t","y","p","e">>

TableNames == {userName, reactionName}
ColumnNames == {typeName}

\* a not-null text column declared with the enum values LIKE and DISLIKE
\* (the reaction table's type column, given text("type", { enum: [...] }))
reactionTypeColumn ==
    Column("string", "SQLiteText", <<LIKE, DISLIKE>>, TRUE, FALSE, FALSE, << >>)
\* an enum column whose literals need placeholders, with a stored default
statusColumn ==
    Column("string", "PgEnumColumn", <<Option1, InProgress, OnHold>>, TRUE, TRUE, FALSE, << >>)
\* the element descriptor of an array of enums, and the array column
labelElementColumn ==
    Column("string", "PgText", <<InProgress, OnHold>>, FALSE, FALSE, FALSE, << >>)
labelsColumn ==
    Column("array", "PgArray", << >>, TRUE, FALSE, TRUE, <<labelElementColumn>>)
nameColumn ==
    Column("string", "SQLiteText", << >>, TRUE, FALSE, FALSE, << >>)
customColumn ==
    Column("custom", "PgCustomColumn", << >>, FALSE, FALSE, FALSE, << >>)

RegistryColumns ==
    {reactionTypeColumn, statusColumn, labelElementColumn, labelsColumn, nameColumn,
     customColumn}

(***************************************************************************)
(* The calls.                                                              *)
(***************************************************************************)
NoCall == [op |-> "none"]

MapCall(column, columnName, tableName, forceNullable, defaultIsNullable, isInput, r) ==
    [op |-> "map", column |-> column, columnName |-> columnName, tableName |-> tableName,
     forceNullable |-> forceNullable, defaultIsNullable |-> defaultIsNullable,
     isInput |-> isInput, threw |-> r.threw, error |-> r.error, type |-> r.type,
     description |-> r.description]

Init ==
    /\ enumMap = << >>
    /\ heap = << >>
    /\ last = NoCall
    /\ tables = << >>
    /\ types = << >>
    /\ callers = << >>

\* one call of drizzleColumnToGraphQLType
MapColumn(column, columnName, tableName, forceNullable, defaultIsNullable, isInput) ==
    LET r == drizzleColumnToGraphQLType(column, columnName, tableName, forceNullable,
                                        defaultIsNullable, isInput, enumMap, heap)
    IN /\ Len(r.heap) <= MaxEnumTypes
       /\ enumMap' = r.enumMap
       /\ heap' = r.heap
       /\ last' = MapCall(column, columnName, tableName, forceNullable,
                          defaultIsNullable, isInput, r)
       /\ UNCHANGED <<tables, types, callers>>

Next ==
    \E column \in RegistryColumns, columnName \in ColumnNames, tableName \in TableNames,
       forceNullable \in BOOLEAN, defaultIsNullable \in BOOLEAN, isInput \in BOOLEAN :
        MapColumn(column, columnName, tableName, forceNullable, defaultIsNullable, isInput)

Spec == Init /\ [][Next]_vars

(***************************************************************************)
(* A second specification for the per-call laws of the mapper: the column, *)
(* the names and the flags of one call are drawn from the whole bounded    *)
(* set of descriptors, and the one action makes the call.                  *)
(***************************************************************************)
LeafShapes ==
    { <<"boolean", "PgBoolean">>, <<"json", "PgGeometryObject">>,
      <<"json", "SQLiteTextJson">>, <<"json", "PgJsonb">>, <<"date", "PgTimestamp">>,
      <<"string", "PgText">>, <<"bigint", "PgBigInt64">>, <<"number", "PgInteger">>,
      <<"number", "SQLiteInteger">>, <<"number", "PgReal">>,
      <<"buffer", "SQLiteBlobBuffer">>, <<"array", "PgVector">>,
      <<"array", "PgGeometry">>, <<"array", "PgLineTuple">>,
      <<"custom", "PgCustomColumn">>, <<"localTime", "PgTime">> }

EnumValueLists == { << >>, <<LIKE, DISLIKE>> }

\* element descriptors: their own nullability flags are never read
ElementLeaves ==
    { Column(sh[1], sh[2], << >>, FALSE, FALSE, FALSE, << >>) : sh \in LeafShapes }
    \cup { Column("string", "PgText", ev, FALSE, FALSE, FALSE, << >>) :
             ev \in EnumValueLists }

RECURSIVE ElementArrays(_)
\* generic arrays nested at most d deep
ElementArrays(d) ==
    IF d = 0 THEN {}
    ELSE { Column("array", "PgArray", << >>, FALSE, FALSE, FALSE, <<b>>) :
             b \in ElementLeaves \cup ElementArrays(d - 1) }

Flagged(c) ==
    { [c EXCEPT !.notNull = nn, !.hasDefault = hd, !.defaultFn = df] :
        nn \in BOOLEAN, hd \in BOOLEAN, df \in BOOLEAN }

MapColumns == UNION { Flagged(c) : c \in ElementLeaves \cup ElementArrays(MaxArrayDepth) }

RECURSIVE StringsUpTo(_, _)
StringsUpTo(alphabet, n) ==
    IF n = 0 THEN { << >> }
    ELSE LET shorter == StringsUpTo(alphabet, n - 1)
         IN shorter \cup { Append(w, ch) : w \in shorter, ch \in alphabet }

tags == <<"t","a","g","s">>
multimediaUrls == <<"m","u","l","t","i","m","e","d","i","a","U","r","l","s">>
multimedia_urls == <<"m","u","l","t","i","m","e","d","i","a","_","u","r","l","s">>
config == <<"c","o","n","f","i","g">>
data == <<"d","a","t","a">>
itemList == <<"i","t","e","m","L","i","s","t">>
userGroup == <<"u","s","e","r","G","r","o","u","p">>
payload == <<"p","a","y","l","o","a","d">>

JsonColumnNames ==
    {tags, multimediaUrls, multimedia_urls, config, data, itemList, userGroup, payload}
    \cup (StringsUpTo({"s", "S", "e", "t"}, MaxNameLen) \ { << >> })

NamesFor(column) ==
    IF column.dataType = "json" THEN JsonColumnNames ELSE {typeName, tags}

ArgsOfMap(column, columnName, tableName, forceNullable, defaultIsNullable, isInput) ==
    [op |-> "args", column |-> column, columnName |-> columnName, tableName |-> tableName,
     forceNullable |-> forceNullable, defaultIsNullable |-> defaultIsNullable,
     isInput |-> isInput]

InitMap ==
    /\ enumMap = << >>
    /\ heap = << >>
    /\ tables = << >>
    /\ types = << >>
    /\ callers = << >>
    /\ \E column \in MapColumns, forceNullable \in BOOLEAN, defaultIsNullable \in BOOLEAN,
          isInput \in BOOLEAN :
         \E columnName \in NamesFor(column) :
            last = ArgsOfMap(column, columnName, reactionName, forceNullable,
                             defaultIsNullable, isInput)

\* the call of drizzleColumnToGraphQLType on the drawn arguments
ApplyMap ==
    /\ last.op = "args"
    /\ LET r == drizzleColumnToGraphQLType(last.column, last.columnName, last.tableName,
                    last.forceNullable, last.defaultIsNullable, last.isInput, enumMap, heap)
       IN /\ enumMap' = r.enumMap
          /\ heap' = r.heap
          /\ last' = MapCall(last.column, last.columnName, last.tableName,
                             last.forceNullable, last.defaultIsNullable, last.isInput, r)
          /\ UNCHANGED <<tables, types, callers>>

NextMap == ApplyMap

SpecMap == InitMap /\ [][NextMap]_vars

(***************************************************************************)
(* Claims about the mapper and the registry.                               *)
(***************************************************************************)
IsEnumColumn(column) == column.dataType = "string" /\ Len(column.enumValues) > 0

IsGenericArray(column) ==
    /\ column.dataType = "array"
    /\ column.columnType \notin {"PgVector", "PgGeometry"}
    /\ column.baseColumn # << >>

RECURSIVE ElementOf(_)
\* the descriptor at the bottom of a chain of generic arrays
ElementOf(column) ==
    IF IsGenericArray(column) THEN ElementOf(column.baseColumn[1]) ELSE column

\* C1: every call that maps an enum column (directly or as the element of a
\* generic array) returns the enum type object the registry holds for that
\* column, the one it already held before the call if there was one; no
\* registry entry is ever removed or replaced, and no constructed enum type
\* object ever changes.
C1_EnumIdentityStep ==
    /\ \A c \in DOMAIN enumMap : c \in DOMAIN enumMap' /\ enumMap'[c] = enumMap[c]
    /\ Len(heap') >= Len(heap) /\ SubSeq(heap', 1, Len(heap)) = heap
    /\ (last'.op = "map" /\ ~last'.threw /\ IsEnumColumn(ElementOf(last'.column)))
          => /\ ElementOf(last'.column) \in DOMAIN enumMap'
             /\ last'.type.base = "Enum"
             /\ last'.type.obj = enumMap'[ElementOf(last'.column)]
             /\ last'.type.obj \in 1..Len(heap')

C1_EnumIdentity == [][C1_EnumIdentityStep]_vars

\* C1 witness: a call on an enum column was answered from the registry with
\* an object older than the newest one, under flags that force nullability
C1_Witness ==
    /\ last.op = "map"
    /\ IsEnumColumn(last.column)
    /\ last.forceNullable /\ last.isInput
    /\ last.type.obj = enumMap[last.column]
    /\ last.type.obj < Len(heap)

IsNonNull(type) == type.wrap # << >> /\ type.wrap[1] = "NonNull"

\* C6: a call that returns wraps the type non-null exactly when forceNullable
\* is false, the column is declared not-null and (defaultIsNullable is false
\* or the column has neither a stored default nor a default function); the
\* wrapper is applied once, around a type that is not itself non-null.
C6_Nullability ==
    (last.op = "map" /\ ~last.threw) =>
        /\ IsNonNull(last.type) <=>
              /\ ~last.forceNullable
              /\ last.column.notNull
              /\ (~last.defaultIsNullable
                    \/ (~last.column.hasDefault /\ ~last.column.defaultFn))
        /\ IsNonNull(last.type) => ~IsNonNull([last.type EXCEPT !.wrap = Tail(@)])

\* C6 witness: a not-null column with a stored default, mapped with
\* defaultIsNullable and without forceNullable, came out nullable
C6_Witness ==
    /\ last.op = "map" /\ ~last.threw
    /\ last.column.notNull /\ last.column.hasDefault /\ ~last.column.defaultFn
    /\ last.defaultIsNullable /\ ~last.forceNullable
    /\ ~IsNonNull(last.type)

\* the collection-naming pattern of the specification: the lower-cased name
\* ends in "s" or contains one of the collection tokens
EndsInS(name) == Len(name) > 0 /\ toLowerCase(name)[Len(name)] = "s"
ContainsToken(name) ==
    \E token \in arrayIndicators :
        \E i \in 1..Len(name) :
            /\ i + Len(token) - 1 <= Len(name)
            /\ \A j \in 1..Len(token) : toLowerCase(name)[i + j - 1] = token[j]
MatchesCollectionPattern(name) == EndsInS(name) \/ ContainsToken(name)

StripNonNull(type) == IF IsNonNull(type) THEN [type EXCEPT !.wrap = Tail(@)] ELSE type

\* C7: a serialized-text JSON column maps (under the nullability wrapper) to
\* a list of strings exactly when its name matches the collection-naming
\* pattern and to the JSON scalar otherwise; tags and multimediaUrls give the
\* list, config and data the scalar.
C7_ArrayHeuristic ==
    (last.op = "map" /\ last.column.dataType = "json"
        /\ last.column.columnType = "SQLiteTextJson") =>
        /\ ~last.threw
        /\ StripNonNull(last.type) =
              IF MatchesCollectionPattern(last.columnName)
              THEN T(<<"List">>, "String", 0) ELSE T(<< >>, "JSON", 0)
        /\ last.columnName \in {tags, multimediaUrls} =>
              StripNonNull(last.type) = T(<<"List">>, "String", 0)
        /\ last.columnName \in {config, data} =>
              StripNonNull(last.type) = T(<< >>, "JSON", 0)

\* C7 witness: a serialized-text JSON column whose name holds a collection
\* token only in upper case, and does not end in s, mapped to the list
C7_Witness ==
    /\ last.op = "map" /\ last.column.columnType = "SQLiteTextJson"
    /\ last.columnName = <<"S", "e", "t">>
    /\ StripNonNull(last.type) = T(<<"List">>, "String", 0)

RecognizedKinds ==
    {"boolean", "json", "date", "string", "bigint", "number", "buffer", "array"}

\* C9: a call on a column whose kind is custom or unrecognized, or on a
\* generic array whose element (at any depth) is such a column, throws the
\* not-implemented error naming that kind, returns no type and leaves the
\* registry as it was, whatever the flags.
C9_Unsupported ==
    (last.op = "map" /\ ElementOf(last.column).dataType \notin RecognizedKinds) =>
        /\ last.threw
        /\ last.error = NotImplementedError(ElementOf(last.column).dataType)
        /\ last.type = NoType
        /\ enumMap = << >> /\ heap = << >>

\* C9 witness: the unsupported kind sat two arrays deep and the call threw
C9_Witness ==
    /\ last.op = "map" /\ last.threw
    /\ IsGenericArray(last.column)
    /\ IsGenericArray(last.column.baseColumn[1])
    /\ ElementOf(last.column).dataType = "custom"
    /\ last.column.notNull /\ last.forceNullable

Range(f) == {f[x] : x \in DOMAIN f}

\* C10 (as claimed): every constructed enum type has exactly one entry per
\* distinct literal value of its column: no two literals share a value name.
C10_NoCollapse ==
    \A c \in DOMAIN enumMap :
        Cardinality(DOMAIN heap[enumMap[c]].values) = Cardinality(Range(c.enumValues))

(***************************************************************************)
(* The JSON scalar.  A JavaScript value is a record [t, s, n, items]: t is *)
(* its kind, s the characters of a string, n a number, items the elements  *)
(* of an array or the key -> value properties of an object.                *)
(***************************************************************************)
JV(t, str, n, items) == [t |-> t, s |-> str, n |-> n, items |-> items]
JsString(str) == JV("string", str, 0, << >>)
JsNumber(n) == JV("number", << >>, n, << >>)
JsBoolean(b) == JV("boolean", << >>, IF b THEN 1 ELSE 0, << >>)
JsNull == JV("null", << >>, 0, << >>)
JsUndefined == JV("undefined", << >>, 0, << >>)
JsArray(items) == JV("array", << >>, 0, items)
JsObject(props) == JV("object", << >>, 0, props)

\* the typeof operator
typeof(value) ==
    CASE value.t \in {"array", "object", "null"} -> "object"
      [] OTHER -> value.t

ParseOk(val, next) == [ok |-> TRUE, val |-> val, next |-> next]
ParseFail == [ok |-> FALSE, val |-> JsUndefined, next |-> 0]

JsonWhitespace == {" "}

RECURSIVE SkipWhitespace(_, _)
SkipWhitespace(str, i) ==
    IF i <= Len(str) /\ str[i] \in JsonWhitespace THEN SkipWhitespace(str, i + 1) ELSE i

RECURSIVE DigitsEnd(_, _)
\* the index after the run of digits that starts at i
DigitsEnd(str, i) ==
    IF i <= Len(str) /\ str[i] \in Digits THEN DigitsEnd(str, i + 1) ELSE i

DigitValue(ch) == CHOOSE d \in 0..9 : DigitChar(d) = ch

RECURSIVE DecimalValue(_)
DecimalValue(ds) ==
    IF Len(ds) = 0 THEN 0
    ELSE 10 * DecimalValue(SubSeq(ds, 1, Len(ds) - 1)) + DigitValue(ds[Len(ds)])

StartsWithAt(str, i, t) ==
    /\ i + Len(t) - 1 <= Len(str)
    /\ SubSeq(str, i, i + Len(t) - 1) = t

\* a string literal opening at i: its characters run to the next quote
ParseStringAt(str, i) ==
    IF \E j \in (i + 1)..Len(str) : str[j] = "\""
    THEN LET j == CHOOSE k \in (i + 1)..Len(str) :
                     /\ str[k] = "\""
                     /\ \A m \in (i + 1)..(k - 1) : str[m] # "\""
         IN ParseOk(JsString(SubSeq(str, i + 1, j - 1)), j + 1)
    ELSE ParseFail

\* a number opening at i: digits without a leading zero
ParseNumberAt(str, i) ==
    LET e == IF str[i] = "0" THEN i + 1 ELSE DigitsEnd(str, i)
    IN ParseOk(JsNumber(DecimalValue(SubSeq(str, i, e - 1))), e)

RECURSIVE ParseValueAt(_, _)
RECURSIVE ParseElementsAt(_, _, _)
RECURSIVE ParseMembersAt(_, _, _)

ParseValueAt(str, i0) ==
    LET i == SkipWhitespace(str, i0)
    IN IF i > Len(str) THEN ParseFail
       ELSE CASE str[i] = "[" ->
                    LET j == SkipWhitespace(str, i + 1)
                    IN IF j <= Len(str) /\ str[j] = "]"
                       THEN ParseOk(JsArray(<< >>), j + 1)
                       ELSE ParseElementsAt(str, i + 1, << >>)
              [] str[i] = "{" ->
                    LET j == SkipWhitespace(str, i + 1)
                    IN IF j <= Len(str) /\ str[j] = "}"
                       THEN ParseOk(JsObject(<< >>), j + 1)
                       ELSE ParseMembersAt(str, i + 1, << >>)
              [] str[i] = "\"" -> ParseStringAt(str, i)
              [] str[i] \in Digits -> ParseNumberAt(str, i)
              [] StartsWithAt(str, i, <<"n","u","l","l">>) -> ParseOk(JsNull, i + 4)
              [] StartsWithAt(str, i, <<"t","r","u","e">>) -> ParseOk(JsBoolean(TRUE), i + 4)
              [] StartsWithAt(str, i, <<"f","a","l","s","e">>) ->
                    ParseOk(JsBoolean(FALSE), i + 5)
              [] OTHER -> ParseFail

ParseElementsAt(str, i, acc) ==
    LET r == ParseValueAt(str, i)
        j == SkipWhitespace(str, r.next)
    IN IF ~r.ok \/ j > Len(str) THEN ParseFail
       ELSE IF str[j] = "," THEN ParseElementsAt(str, j + 1, Append(acc, r.val))
       ELSE IF str[j] = "]" THEN ParseOk(JsArray(Append(acc, r.val)), j + 1)
       ELSE ParseFail

ParseMembersAt(str, i, acc) ==
    LET k == SkipWhitespace(str, i)
        key == IF k <= Len(str) /\ str[k] = "\"" THEN ParseStringAt(str, k) ELSE ParseFail
        c == SkipWhitespace(str, key.next)
        r == IF key.ok /\ c <= Len(str) /\ str[c] = ":"
             THEN ParseValueAt(str, c + 1) ELSE ParseFail
        j == SkipWhitespace(str, r.next)
        props == [p \in DOMAIN acc \cup {key.val.s} |->
                    IF p = key.val.s THEN r.val ELSE acc[p]]
    IN IF ~r.ok \/ j > Len(str) THEN ParseFail
       ELSE IF str[j] = "," THEN ParseMembersAt(str, j + 1, props)
       ELSE IF str[j] = "}" THEN ParseOk(JsObject(props), j + 1)
       ELSE ParseFail

\* JSON.parse: the value, or a SyntaxError thrown
JSONparse(str) ==
    LET r == ParseValueAt(str, 1)
    IN IF r.ok /\ SkipWhitespace(str, r.next) > Len(str)
       THEN [threw |-> FALSE, val |-> r.val]
       ELSE [threw |-> TRUE, val |-> JsUndefined]

\* try { return JSON.parse(value); } catch { return value; }
TryParseNoCatch(value) == JSONparse(value.s)
TryParse(value) ==
    LET p == JSONparse(value.s)
    IN IF p.threw THEN [threw |-> FALSE, val |-> value] ELSE p

\* GraphQLJSON.serialize
serialize(value) ==
    IF typeof(value) = "object" THEN [threw |-> FALSE, val |-> value]
    ELSE IF typeof(value) = "string" THEN TryParse(value)
    ELSE [threw |-> FALSE, val |-> value]

\* GraphQLJSON.parseValue
parseValue(value) ==
    IF typeof(value) = "string" THEN TryParse(value)
    ELSE [threw |-> FALSE, val |-> value]

(***************************************************************************)
(* A specification for the JSON scalar: one stored or supplied value,      *)
(* handed to serialize or to parseValue.                                   *)
(***************************************************************************)
RECURSIVE Join(_, _)
\* the texts of a sequence, separated by sep
Join(texts, sep) ==
    IF Len(texts) = 0 THEN << >>
    ELSE IF Len(texts) = 1 THEN texts[1]
    ELSE texts[1] \o sep \o Join(Tail(texts), sep)

RECURSIVE Stringify(_)
RECURSIVE StringifyProps(_)
\* the JSON text of a structured value (JSON.stringify)
Stringify(v) ==
    CASE v.t = "string" -> <<"\"">> \o v.s \o <<"\"">>
      [] v.t = "number" -> NumberToString(v.n)
      [] v.t = "boolean" -> IF v.n = 1 THEN <<"t","r","u","e">> ELSE <<"f","a","l","s","e">>
      [] v.t = "array" ->
            <<"[">> \o Join([i \in 1..Len(v.items) |-> Stringify(v.items[i])], <<",">>)
                    \o <<"]">>
      [] v.t = "object" -> <<"{">> \o StringifyProps(v.items) \o <<"}">>
      [] OTHER -> <<"n","u","l","l">>

StringifyProps(props) ==
    IF DOMAIN props = {} THEN << >>
    ELSE LET k == CHOOSE key \in DOMAIN props : TRUE
             rest == [p \in DOMAIN props \ {k} |-> props[p]]
             member == <<"\"">> \o k \o <<"\"", ":">> \o Stringify(props[k])
         IN IF DOMAIN rest = {} THEN member ELSE member \o <<",">> \o StringifyProps(rest)

JsonAtoms ==
    {JsNull, JsNumber(1), JsNumber(12), JsNumber(0), JsString(<< >>), JsString(<<"a">>),
     JsBoolean(TRUE), JsBoolean(FALSE)}

JsonArrays ==
    {JsArray(<< >>)} \cup {JsArray(<<a>>) : a \in JsonAtoms}
    \cup {JsArray(<<a, b>>) : a \in JsonAtoms, b \in {JsNumber(1), JsArray(<< >>)}}

JsonObjects ==
    {JsObject(<< >>)}
    \cup {JsObject([k \in {<<"a">>} |-> v]) : v \in JsonAtoms \cup JsonArrays}
    \cup {JsObject([k \in {<<"a">>, <<"a", "a">>} |-> IF k = <<"a">> THEN v ELSE JsNumber(1)]) :
             v \in JsonAtoms}

StructuredValues == JsonAtoms \cup JsonArrays \cup JsonObjects

\* stored strings that are not JSON
MalformedTexts ==
    { <<"{", "\"", "a", "\"", ":">>, <<"{", "a", ":", "1", "}">>, <<"[", "1", ",", "]">>,
      <<"h", "e", "l", "l", "o">>, <<"0", "1">>, <<"n", "u", "l">>,
      <<"{", "\"", "a", "\"", ":", "1", "}", "}">> }

JsonAlphabet == {"[", "]", ",", "1", "\"", "a", " "}

ScalarInputs ==
    {JsString(str) : str \in StringsUpTo(JsonAlphabet, MaxJsonLen)}
    \cup {JsString(Stringify(v)) : v \in StructuredValues}
    \cup {JsString(str) : str \in MalformedTexts}
    \cup StructuredValues \cup {JsUndefined}

ScalarCall(method, value, r) ==
    [op |-> method, value |-> value, threw |-> r.threw, result |-> r.val]

InitScalar ==
    /\ enumMap = << >>
    /\ heap = << >>
    /\ tables = << >>
    /\ types = << >>
    /\ callers = << >>
    /\ \E value \in ScalarInputs : last = [op |-> "value", value |-> value]

\* GraphQLJSON.serialize(value)
Serialize ==
    /\ last.op = "value"
    /\ last' = ScalarCall("serialize", last.value, serialize(last.value))
    /\ UNCHANGED <<enumMap, heap, tables, types, callers>>

\* GraphQLJSON.parseValue(value)
ParseValue ==
    /\ last.op = "value"
    /\ last' = ScalarCall("parseValue", last.value, parseValue(last.value))
    /\ UNCHANGED <<enumMap, heap, tables, types, callers>>

NextScalar == Serialize \/ ParseValue

SpecScalar == InitScalar /\ [][NextScalar]_vars

\* C8: serialize and parseValue never throw; a non-string value comes back
\* unchanged; a string comes back as the value JSON.parse gives it when it
\* parses and as the same string when it does not.  The JSON text of every
\* structured value gives that value back, and the malformed texts stay raw.
C8_JsonScalarTotal ==
    (last.op \in {"serialize", "parseValue"}) =>
        /\ ~last.threw
        /\ last.value.t # "string" => last.result = last.value
        /\ last.value.t = "string" =>
              /\ JSONparse(last.value.s).threw => last.result = last.value
              /\ ~JSONparse(last.value.s).threw =>
                    last.result = JSONparse(last.value.s).val
              /\ \A v \in StructuredValues :
                    last.value.s = Stringify(v) => last.result = v
              /\ last.value.s \in MalformedTexts => last.result = last.value

\* C8 witness: a malformed stored string went through serialize and came
\* back as the raw string
C8_Witness ==
    /\ last.op = "serialize"
    /\ last.value = JsString(<<"{", "\"", "a", "\"", ":">>)
    /\ ~last.threw
    /\ last.result = last.value

(***************************************************************************)
(* The selection resolver, extractColumns(selectionNode, interfaceName).   *)
(* A selection node is absent, flat (field name -> its own sub-selection), *)
(* type-keyed (a sequence of type name and flat mapping, in the order the  *)
(* query engine produced the keys) or of some other shape.                 *)
(***************************************************************************)
\* the tables of the test schema: their columns, relation fields and the
\* synthesized types that implement each table's interface
TableOfInterface ==
    [i \in {"UserFields", "PostFields"} |-> IF i = "UserFields" THEN "user" ELSE "post"]

TableColumns ==
    [t \in {"user", "post"} |->
        IF t = "user" THEN {"id", "name", "email", "bio"}
        ELSE {"id", "title", "content", "authorId", "name"}]

TableRelations ==
    [t \in {"user", "post"} |->
        IF t = "user" THEN {"posts", "comments", "profile"} ELSE {"author", "comments"}]

ImplementingTypes ==
    [i \in {"UserFields", "PostFields"} |->
        IF i = "UserFields"
        THEN {"UserSelectItem", "UserItem", "PostAuthorRelation", "CommentUserRelation"}
        ELSE {"PostSelectItem", "PostItem", "UserPostsRelation", "CommentPostRelation"}]

Node(shape, fields, byType) == [shape |-> shape, fields |-> fields, byType |-> byType]
AbsentNode == Node("absent", << >>, << >>)
FlatNode(fields) == Node("flat", fields, << >>)
TypedNode(byType) == Node("typed", << >>, byType)
OtherNode == Node("other", << >>, << >>)

EmptySelection == [columns |-> {}, relations |-> << >>]

\* step 1: the entries naming a column are the requested columns, the
\* entries naming a relation field the requested relations with their nodes
ClassifyFields(fields, interfaceName) ==
    LET table == TableOfInterface[interfaceName]
    IN [columns |-> {f \in DOMAIN fields : f \in TableColumns[table]},
        relations |-> [f \in {g \in DOMAIN fields : g \in TableRelations[table]} |-> fields[f]]]

\* merging one more flat mapping into the accumulator
MergeSelectionOverwrite(acc, sel) == sel
MergeSelection(acc, sel) ==
    [columns |-> acc.columns \cup sel.columns,
     relations |-> [f \in DOMAIN acc.relations \cup DOMAIN sel.relations |->
                      IF f \in DOMAIN sel.relations THEN sel.relations[f]
                      ELSE acc.relations[f]]]

\* step 2: the keys that count are the table's own interface name and the
\* types implementing that interface
IsRelatedKeyInterfaceOnly(key, interfaceName) == key = interfaceName
IsRelatedKeyAny(key, interfaceName) == TRUE
IsRelatedKey(key, interfaceName) ==
    key = interfaceName \/ key \in ImplementingTypes[interfaceName]

RECURSIVE MergeTypeKeys(_, _, _)
MergeTypeKeys(byType, interfaceName, acc) ==
    IF byType = << >> THEN acc
    ELSE MergeTypeKeys(Tail(byType), interfaceName,
            IF IsRelatedKey(byType[1].key, interfaceName)
            THEN MergeSelection(acc, ClassifyFields(byType[1].fields, interfaceName))
            ELSE acc)

\* the same, rejecting what is neither flat nor type-keyed
extractColumnsStrict(selectionNode, interfaceName) ==
    CASE selectionNode.shape = "flat" -> ClassifyFields(selectionNode.fields, interfaceName)
      [] selectionNode.shape = "typed" ->
            MergeTypeKeys(selectionNode.byType, interfaceName, EmptySelection)
      [] OTHER -> [threw |-> TRUE, error |-> "unexpected selection shape"]

extractColumns(selectionNode, interfaceName) ==
    CASE selectionNode.shape = "flat" -> ClassifyFields(selectionNode.fields, interfaceName)
      [] selectionNode.shape = "typed" ->
            MergeTypeKeys(selectionNode.byType, interfaceName, EmptySelection)
      [] OTHER -> EmptySelection

(***************************************************************************)
(* A specification for the resolver: one selection node and the interface  *)
(* of the table being resolved are drawn, and the one action resolves it.  *)
(***************************************************************************)
\* requested entries: a field name and the sub-selection node it carries
FieldEntries ==
    { <<"id", "leaf">>, <<"name", "leaf">>, <<"bio", "leaf">>, <<"title", "leaf">>,
      <<"__typename", "leaf">>, <<"posts", "sel1">>, <<"posts", "sel2">> }

TypeKeys == {"UserFields", "UserSelectItem", "PostAuthorRelation", "PostFields"}

RECURSIVE SubsetsUpTo(_, _)
\* the subsets of S with at most n elements
SubsetsUpTo(S, n) ==
    IF n = 0 THEN { {} }
    ELSE LET smaller == SubsetsUpTo(S, n - 1)
         IN smaller \cup { p \cup {x} : p \in smaller, x \in S }

\* entries that name each field once
OneEntryPerName(entries) ==
    \A e1 \in entries, e2 \in entries : e1[1] = e2[1] => e1 = e2

FlatOf(entries) ==
    [f \in {e[1] : e \in entries} |-> (CHOOSE e \in entries : e[1] = f)[2]]

FlatMappings ==
    { FlatOf(entries) : entries \in {es \in SubsetsUpTo(FieldEntries, MaxFields) :
                                        OneEntryPerName(es)} }

RECURSIVE KeySequences(_)
\* sequences of at most n distinct type names
KeySequences(n) ==
    IF n = 0 THEN { << >> }
    ELSE LET shorter == KeySequences(n - 1)
         IN shorter \cup { Append(ks, k) : ks \in shorter, k \in TypeKeys }

DistinctKeys(ks) == \A i \in 1..Len(ks), j \in 1..Len(ks) : ks[i] = ks[j] => i = j

\* the type-keyed nodes over a key sequence: at most MaxFields entries in all
TypedNodesOver(ks) ==
    { TypedNode([i \in 1..Len(ks) |->
                    [key |-> ks[i],
                     fields |-> FlatOf({sl[2] : sl \in {x \in slots : x[1] = i}})]]) :
        slots \in { sl \in SubsetsUpTo((1..Len(ks)) \X FieldEntries, MaxFields) :
                      \A i \in 1..Len(ks) :
                          OneEntryPerName({x[2] : x \in {y \in sl : y[1] = i}}) } }

KeySequencesDistinct == {ks \in KeySequences(MaxTypeKeys) : DistinctKeys(ks)}

UntypedNodes == {AbsentNode, OtherNode} \cup { FlatNode(fields) : fields \in FlatMappings }

NodeArgs(node, interfaceName) ==
    [op |-> "node", node |-> node, interfaceName |-> interfaceName]

InitSel ==
    /\ enumMap = << >>
    /\ heap = << >>
    /\ tables = << >>
    /\ types = << >>
    /\ callers = << >>
    /\ \E interfaceName \in DOMAIN TableOfInterface :
          \/ \E node \in UntypedNodes : last = NodeArgs(node, interfaceName)
          \/ \E ks \in KeySequencesDistinct :
                \E node \in TypedNodesOver(ks) : last = NodeArgs(node, interfaceName)

\* one call of extractColumns
ExtractColumns ==
    /\ last.op = "node"
    /\ last' = [op |-> "extract", node |-> last.node, interfaceName |-> last.interfaceName,
                result |-> extractColumns(last.node, last.interfaceName)]
    /\ UNCHANGED <<enumMap, heap, tables, types, callers>>

NextSel == ExtractColumns

SpecSel == InitSel /\ [][NextSel]_vars

(***************************************************************************)
(* Claims about the resolver.                                              *)
(***************************************************************************)
\* a key that denotes the table being resolved: its interface or a type
\* that implements it
DenotesTable(key, interfaceName) ==
    \/ key = interfaceName
    \/ interfaceName = "UserFields"
         /\ key \in {"UserSelectItem", "UserItem", "PostAuthorRelation", "CommentUserRelation"}
    \/ interfaceName = "PostFields"
         /\ key \in {"PostSelectItem", "PostItem", "UserPostsRelation", "CommentPostRelation"}

Extracted == last.op = "extract"

MixedScenarioNodes ==
    { TypedNode(<<[key |-> "UserFields", fields |-> FlatOf({<<"id", "leaf">>, <<"name", "leaf">>})],
                  [key |-> "UserSelectItem", fields |-> FlatOf({<<"bio", "leaf">>})]>>),
      TypedNode(<<[key |-> "UserSelectItem", fields |-> FlatOf({<<"bio", "leaf">>})],
                  [key |-> "UserFields", fields |-> FlatOf({<<"id", "leaf">>, <<"name", "leaf">>})]>>) }

RequestedFor(node, interfaceName) ==
    IF node.shape = "flat" THEN DOMAIN node.fields
    ELSE IF node.shape = "typed"
    THEN UNION { DOMAIN node.byType[i].fields :
                   i \in {k \in 1..Len(node.byType) :
                            DenotesTable(node.byType[k].key, interfaceName)} }
    ELSE {}

idName == <<"i","d">>
nameName == <<"n","a","m","e">>
emailName == <<"e","m","a","i","l">>
bioName == <<"b","i","o">>
titleName == <<"t","i","t","l","e">>
contentName == <<"c","o","n","t","e","n","t">>
authorIdName == <<"a","u","t","h","o","r","I","d">>
textName == <<"t","e","x","t">>
postIdName == <<"p","o","s","t","I","d">>
userIdName == <<"u","s","e","r","I","d">>
avatarUrlName == <<"a","v","a","t","a","r","U","r","l">>
websiteName == <<"w","e","b","s","i","t","e">>
postName == <<"p","o","s","t">>
commentName == <<"c","o","m","m","e","n","t">>
userProfileName == <<"u","s","e","r","P","r","o","f","i","l","e">>

\* text(..) columns of the test schema
TextColumn(notNull, defaultFn) ==
    Column("string", "SQLiteText", << >>, notNull, defaultFn, defaultFn, << >>)
PrimaryKeyColumn == TextColumn(TRUE, TRUE)
RequiredText == TextColumn(TRUE, FALSE)
OptionalText == TextColumn(FALSE, FALSE)

Field(name, column) == [name |-> name, column |-> column]

\* the tables as declared, with user.bio and post.name left open
TestSchema(bio, postNameColumn) ==
    [t \in {"user", "post", "comment", "userProfile"} |->
        CASE t = "user" ->
                <<Field(idName, PrimaryKeyColumn), Field(nameName, RequiredText),
                  Field(emailName, RequiredText), Field(bioName, bio)>>
          [] t = "post" ->
                <<Field(idName, PrimaryKeyColumn), Field(titleName, RequiredText),
                  Field(contentName, RequiredText), Field(authorIdName, RequiredText),
                  Field(nameName, postNameColumn)>>
          [] t = "comment" ->
                <<Field(idName, PrimaryKeyColumn), Field(textName, RequiredText),
                  Field(postIdName, RequiredText), Field(userIdName, RequiredText)>>
          [] OTHER ->
                <<Field(idName, PrimaryKeyColumn), Field(userIdName, RequiredText),
                  Field(bioName, OptionalText), Field(avatarUrlName, OptionalText),
                  Field(websiteName, OptionalText)>>]

TableName ==
    [t \in {"user", "post", "comment", "userProfile"} |->
        CASE t = "user" -> userName [] t = "post" -> postName
          [] t = "comment" -> commentName [] OTHER -> userProfileName]

InterfaceName ==
    [t \in {"user", "post", "comment", "userProfile"} |->
        CASE t = "user" -> "UserFields" [] t = "post" -> "PostFields"
          [] t = "comment" -> "CommentFields" [] OTHER -> "UserProfileFields"]

SelectItemName ==
    [t \in {"user", "post", "comment", "userProfile"} |->
        CASE t = "user" -> "UserSelectItem" [] t = "post" -> "PostSelectItem"
          [] t = "comment" -> "CommentSelectItem" [] OTHER -> "UserProfileSelectItem"]

ItemName ==
    [t \in {"user", "post", "comment", "userProfile"} |->
        CASE t = "user" -> "UserItem" [] t = "post" -> "PostItem"
          [] t = "comment" -> "CommentItem" [] OTHER -> "UserProfileItem"]

Edge(owner, field, target, many, relationType) ==
    [owner |-> owner, field |-> field, target |-> target, many |-> many,
     typeName |-> relationType]

\* userRelations, postRelations, commentRelations, userProfileRelations
RelationEdges ==
    { Edge("user", <<"p","o","s","t","s">>, "post", TRUE, "UserPostsRelation"),
      Edge("user", <<"c","o","m","m","e","n","t","s">>, "comment", TRUE, "UserCommentsRelation"),
      Edge("user", <<"p","r","o","f","i","l","e">>, "userProfile", FALSE, "UserProfileRelation"),
      Edge("post", <<"a","u","t","h","o","r">>, "user", FALSE, "PostAuthorRelation"),
      Edge("post", <<"c","o","m","m","e","n","t","s">>, "comment", TRUE, "PostCommentsRelation"),
      Edge("comment", <<"p","o","s","t">>, "post", FALSE, "CommentPostRelation"),
      Edge("comment", <<"u","s","e","r">>, "user", FALSE, "CommentUserRelation"),
      Edge("userProfile", <<"u","s","e","r">>, "user", FALSE, "UserProfileUserRelation") }

ConvertedField(type, description) == [type |-> type, description |-> description]

RECURSIVE MapTableColumns(_, _, _, _, _)
\* the interface fields after one column's conversion r, or its error
AfterColumn(r, columns, tableName, acc) ==
    IF r.threw
    THEN [threw |-> TRUE, error |-> r.error, fields |-> << >>,
          enumMap |-> r.enumMap, heap |-> r.heap]
    ELSE MapTableColumns(Tail(columns), tableName,
            [f \in DOMAIN acc \cup {columns[1].name} |->
                IF f = columns[1].name
                THEN ConvertedField(r.type, r.description) ELSE acc[f]],
            r.enumMap, r.heap)

\* the Type Mapper over a table's columns in order, forceNullable = false:
\* the interface's fields, or the first error thrown
MapTableColumns(columns, tableName, acc, em, hp) ==
    IF columns = << >>
    THEN [threw |-> FALSE, error |-> NoError, fields |-> acc, enumMap |-> em, heap |-> hp]
    ELSE CHOOSE out \in
            { AfterColumn(r, columns, tableName, acc) :
                r \in {drizzleColumnToGraphQLType(columns[1].column, columns[1].name,
                                                  tableName, FALSE, FALSE, FALSE, em, hp)} } :
            TRUE

\* one field per relation edge of the table: [Relation!]! for many, a
\* nullable Relation for one, the relation type referred to by name
RelationFields(t) ==
    LET edges == {e \in RelationEdges : e.owner = t}
    IN [f \in {e.field : e \in edges} |->
          LET e == CHOOSE x \in edges : x.field = f
          IN ConvertedField(IF e.many
                            THEN GraphQLNonNull(GraphQLList(GraphQLNonNull(T(<< >>, e.typeName, 0))))
                            ELSE T(<< >>, e.typeName, 0),
                            NoDescription)]

\* a concrete type's fields: the interface's fields copied, plus the given
\* relation fields
ConcreteFieldsForcedNullable(interfaceFields, relationFields) ==
    [f \in DOMAIN interfaceFields \cup DOMAIN relationFields |->
        IF f \in DOMAIN interfaceFields
        THEN [interfaceFields[f] EXCEPT !.type = StripNonNull(@)]
        ELSE relationFields[f]]
ConcreteFields(interfaceFields, relationFields) ==
    [f \in DOMAIN interfaceFields \cup DOMAIN relationFields |->
        IF f \in DOMAIN interfaceFields THEN interfaceFields[f] ELSE relationFields[f]]

TypeDef(kind, role, implements, fields) ==
    [kind |-> kind, role |-> role, implements |-> implements, fields |-> fields]

\* the types synthesized for table t from its interface fields
TypesOfTable(t, interfaceFields) ==
    LET incoming == {e \in RelationEdges : e.target = t}
        names == {InterfaceName[t], SelectItemName[t], ItemName[t]}
                    \cup {e.typeName : e \in incoming}
    IN [n \in names |->
          IF n = InterfaceName[t]
          THEN TypeDef("interface", "Fields", "none", interfaceFields)
          ELSE IF n = ItemName[t]
          THEN TypeDef("object", "Item", InterfaceName[t],
                       ConcreteFields(interfaceFields, << >>))
          ELSE IF n = SelectItemName[t]
          THEN TypeDef("object", "SelectItem", InterfaceName[t],
                       ConcreteFields(interfaceFields, RelationFields(t)))
          ELSE TypeDef("object", "Relation", InterfaceName[t],
                       ConcreteFields(interfaceFields, RelationFields(t)))]

\* descriptors user.bio and post.name are drawn from
OpenColumns ==
    { OptionalText, RequiredText, TextColumn(TRUE, TRUE),
      Column("string", "SQLiteText", <<LIKE, DISLIKE>>, TRUE, FALSE, FALSE, << >>),
      Column("string", "SQLiteText", <<LIKE, DISLIKE>>, FALSE, TRUE, FALSE, << >>),
      Column("string", "SQLiteText", <<Option1, InProgress>>, TRUE, FALSE, FALSE, << >>),
      Column("json", "SQLiteTextJson", << >>, TRUE, FALSE, FALSE, << >>),
      Column("json", "SQLiteTextJson", << >>, FALSE, FALSE, FALSE, << >>),
      Column("number", "SQLiteInteger", << >>, TRUE, FALSE, FALSE, << >>),
      Column("number", "SQLiteReal", << >>, FALSE, FALSE, FALSE, << >>),
      Column("buffer", "SQLiteBlobBuffer", << >>, TRUE, FALSE, FALSE, << >>),
      Column("custom", "SQLiteCustomColumn", << >>, TRUE, FALSE, FALSE, << >>) }

InitSynth ==
    /\ enumMap = << >>
    /\ heap = << >>
    /\ last = NoCall
    /\ types = << >>
    /\ callers = << >>
    \* two column objects are two records: the open columns differ when
    \* they carry enum values
    /\ \E bio \in OpenColumns, postNameColumn \in OpenColumns :
          /\ bio.enumValues = << >> \/ bio # postNameColumn
          /\ tables = TestSchema(bio, postNameColumn)

\* the registry after table t's types are added
WithTypes(registry, new) ==
    [n \in DOMAIN registry \cup DOMAIN new |->
        IF n \in DOMAIN new THEN new[n] ELSE registry[n]]

\* the outcome m of mapping table t's columns, applied: an error of the Type
\* Mapper aborts the build
ApplyMapped(t, m) ==
    /\ enumMap' = m.enumMap
    /\ heap' = m.heap
    /\ IF m.threw
       THEN /\ last' = [op |-> "synthError", table |-> t, error |-> m.error]
            /\ types' = types
       ELSE /\ last' = [op |-> "synth", table |-> t, error |-> NoError]
            /\ types' = WithTypes(types, TypesOfTable(t, m.fields))

\* the synthesis of one table's interface and concrete types
SynthesizeTable(t) ==
    /\ last.op # "synthError"
    /\ InterfaceName[t] \notin DOMAIN types
    /\ ApplyMapped(t, MapTableColumns(tables[t], TableName[t], << >>, enumMap, heap))
    /\ UNCHANGED <<tables, callers>>

NextSynth == \E t \in DOMAIN tables : SynthesizeTable(t)

SpecSynth == InitSynth /\ [][NextSynth]_vars

(***************************************************************************)
(* Synthesis claims                                                        *)
(***************************************************************************)
ColumnSet(t) == {tables[t][i].name : i \in DOMAIN tables[t]}
RelationNames(t) == {e.field : e \in {x \in RelationEdges : x.owner = t}}
ConcreteTypeNames(t) ==
    {SelectItemName[t], ItemName[t]} \cup {e.typeName : e \in {x \in RelationEdges : x.target = t}}

\* C5: once a table's interface is synthesized, its field set is exactly the
\* table's column set; the SelectItem type, the Item type and every Relation
\* type targeting the table exist, implement that interface and carry every
\* interface field under the same name with the identical type (nullability
\* included); what they carry beyond it are relation fields of the table,
\* and the Item type carries none.
C5_InterfaceMirrored ==
    \A t \in DOMAIN tables :
        InterfaceName[t] \in DOMAIN types =>
            LET interface == types[InterfaceName[t]]
            IN /\ interface.kind = "interface"
               /\ DOMAIN interface.fields = ColumnSet(t)
               /\ ConcreteTypeNames(t) \subseteq DOMAIN types
               /\ {n \in DOMAIN types : types[n].implements = InterfaceName[t]}
                     = ConcreteTypeNames(t)
               /\ \A n \in ConcreteTypeNames(t) :
                     /\ types[n].implements = InterfaceName[t]
                     /\ \A f \in DOMAIN interface.fields :
                           /\ f \in DOMAIN types[n].fields
                           /\ types[n].fields[f].type = interface.fields[f].type
                     /\ (DOMAIN types[n].fields \ DOMAIN interface.fields)
                           \subseteq RelationNames(t)
               /\ DOMAIN types[ItemName[t]].fields = ColumnSet(t)

\* the user table synthesized with a non-null enum bio: the relation type of
\* post.author and the Item type mirror it, the SelectItem type adds the
\* three relation fields
C5_Witness ==
    /\ "UserFields" \in DOMAIN types
    /\ IsNonNull(types["UserFields"].fields[bioName].type)
    /\ types["UserFields"].fields[bioName].type.obj # 0
    /\ types["PostAuthorRelation"].fields[bioName].type = types["UserFields"].fields[bioName].type
    /\ DOMAIN types["UserItem"].fields = ColumnSet("user")
    /\ DOMAIN types["UserSelectItem"].fields = ColumnSet("user") \cup RelationNames("user")
    /\ RelationNames("user") # {}

(***************************************************************************)
(* A specification for the enum builder alone: one column with a drawn     *)
(* list of enum literals, mapped once on an empty registry.                *)
(***************************************************************************)
MaxEnumValues == 3

Option0 == <<"O","p","t","i","o","n","0">>
a_1 == <<"a","_","1">>
EmptyLiteral == << >>

EnumLiterals == {LIKE, Option0, Option1, InProgress, OnHold, a_1, EmptyLiteral}

RECURSIVE LiteralLists(_)
\* the non-empty enumValues lists of at most n literals
LiteralLists(n) ==
    IF n = 0 THEN {}
    ELSE LET shorter == LiteralLists(n - 1)
         IN { <<e>> : e \in EnumLiterals }
              \cup shorter \cup { Append(w, e) : w \in shorter, e \in EnumLiterals }

EnumColumnOf(enumValues) ==
    Column("string", "PgEnumColumn", enumValues, TRUE, FALSE, FALSE, << >>)

InitEnum ==
    /\ enumMap = << >>
    /\ heap = << >>
    /\ tables = << >>
    /\ types = << >>
    /\ callers = << >>
    /\ \E enumValues \in LiteralLists(MaxEnumValues) :
          last = [op |-> "enumArgs", column |-> EnumColumnOf(enumValues),
                  columnName |-> typeName, tableName |-> reactionName]

\* the call generateEnumCached(column, columnName, tableName)
GenerateEnum ==
    /\ last.op = "enumArgs"
    /\ LET r == generateEnumCached(last.column, last.columnName, last.tableName,
                                   enumMap, heap)
       IN /\ enumMap' = r.enumMap
          /\ heap' = r.heap
          /\ last' = [op |-> "enum", column |-> last.column,
                      columnName |-> last.columnName, tableName |-> last.tableName,
                      id |-> r.id]
    /\ UNCHANGED <<tables, types, callers>>

NextEnum == GenerateEnum

SpecEnum == InitEnum /\ [][NextEnum]_vars

NameCharacters == UpperLetters \cup LowerLetters \cup Digits \cup {"_"}
AllowedLiteral(e) == Len(e) > 0 /\ \A i \in 1..Len(e) : e[i] \in NameCharacters
\* the name the literal at 0-based position index is to be exposed under
ExposedName(e, index) ==
    IF AllowedLiteral(e) THEN e ELSE <<"O","p","t","i","o","n">> \o NumberToString(index)

\* C11 (what holds of the code): the built enum has exactly the value names of its literals,
\* a literal of characters [A-Za-z0-9_] under its own text and any other
\* (or the empty one) under Option<index>, index its 0-based position; the
\* entry under a name carries the original literal of the last position that
\* yields the name, so a literal's entry carries that literal whenever no
\* later literal yields the same name.
C11_EnumValueNaming ==
    last.op = "enum" =>
        LET enumValues == last.column.enumValues
            values == heap[last.id].values
            nameAt(i) == ExposedName(enumValues[i], i - 1)
        IN /\ DOMAIN values = {nameAt(i) : i \in 1..Len(enumValues)}
           /\ \A i \in 1..Len(enumValues) :
                 (\A j \in (i + 1)..Len(enumValues) : nameAt(j) # nameAt(i))
                    => values[nameAt(i)] = enumValues[i]

\* C11 (as claimed): every literal's entry, under the name the rule gives
\* it, carries that literal
C11_AsClaimed ==
    last.op = "enum" =>
        \A i \in 1..Len(last.column.enumValues) :
            LET e == last.column.enumValues[i]
            IN /\ ExposedName(e, i - 1) \in DOMAIN heap[last.id].values
               /\ heap[last.id].values[ExposedName(e, i - 1)] = e

\* C11 witness: a plain literal, one with a space and the empty one, each
\* under its own name with its literal as value
C11_Witness ==
    /\ last.op = "enum"
    /\ last.column.enumValues = <<LIKE, InProgress, EmptyLiteral>>
    /\ heap[last.id].values[LIKE] = LIKE
    /\ heap[last.id].values[Option1] = InProgress
    /\ heap[last.id].values[<<"O","p","t","i","o","n","2">>] = EmptyLiteral

(***************************************************************************)
(* Several callers map enum columns for the first time.  generateEnumCached *)
(* is a synchronous function without await or yield: under JavaScript's    *)
(* run-to-completion execution a call's enumMap.has, construction and      *)
(* enumMap.set form one step, and callers interleave between calls only.   *)
(***************************************************************************)
MaxCallers == 3

Callers == 1..MaxCallers
SharedColumns == {reactionTypeColumn, statusColumn}

Caller(pc, column, columnName, tableName, got) ==
    [pc |-> pc, column |-> column, columnName |-> columnName, tableName |-> tableName,
     got |-> got]

InitCallers ==
    /\ enumMap = << >>
    /\ heap = << >>
    /\ last = NoCall
    /\ tables = << >>
    /\ types = << >>
    /\ callers \in [Callers -> { Caller("start", column, typeName, tableName, 0) :
                                    column \in SharedColumns, tableName \in TableNames }]

\* the same call cut in two steps, another caller free to run between the
\* enumMap.has that missed and the construction with enumMap.set
CallGenerateEnumInterleaved(p) ==
    \/ /\ callers[p].pc = "start"
       /\ IF callers[p].column \in DOMAIN enumMap
          THEN callers' = [callers EXCEPT ![p].pc = "done",
                                          ![p].got = enumMap[callers[p].column]]
          ELSE callers' = [callers EXCEPT ![p].pc = "missed"]
       /\ UNCHANGED <<enumMap, heap, last, tables, types>>
    \/ /\ callers[p].pc = "missed"
       /\ LET r == generateEnumUncached(callers[p].column, callers[p].columnName,
                                        callers[p].tableName, enumMap, heap)
          IN /\ enumMap' = r.enumMap
             /\ heap' = r.heap
             /\ callers' = [callers EXCEPT ![p].pc = "done", ![p].got = r.id]
       /\ UNCHANGED <<last, tables, types>>

\* caller p's call of generateEnumCached, run to completion
CallGenerateEnum(p) ==
    /\ callers[p].pc = "start"
    /\ LET r == generateEnumCached(callers[p].column, callers[p].columnName,
                                   callers[p].tableName, enumMap, heap)
       IN /\ enumMap' = r.enumMap
          /\ heap' = r.heap
          /\ callers' = [callers EXCEPT ![p].pc = "done", ![p].got = r.id]
    /\ UNCHANGED <<last, tables, types>>

NextCallers == \E p \in Callers : CallGenerateEnum(p)

SpecCallers == InitCallers /\ [][NextCallers]_vars

\* C12: whatever the order in which the callers run, every enum type object
\* constructed is the one published for its column, one per column, and
\* every caller that has returned holds the object published for its column,
\* so callers of the same column hold the same object.
C12_InsertIfAbsent ==
    /\ Len(heap) = Cardinality(DOMAIN enumMap)
    /\ \A c \in DOMAIN enumMap, d \in DOMAIN enumMap : enumMap[c] = enumMap[d] => c = d
    /\ \A p \in Callers :
          callers[p].pc = "done" =>
             /\ callers[p].column \in DOMAIN enumMap
             /\ callers[p].got = enumMap[callers[p].column]
    /\ \A p \in Callers, q \in Callers :
          (callers[p].pc = "done" /\ callers[q].pc = "done"
                /\ callers[p].column = callers[q].column)
             => callers[p].got = callers[q].got

\* C12 witness: all callers have returned, two of them first users of the
\* same column under different table names, a third one of another column
C12_Witness ==
    /\ \A p \in Callers : callers[p].pc = "done"
    /\ \E p \in Callers, q \in Callers :
          /\ p # q
          /\ callers[p].column = callers[q].column
          /\ callers[p].tableName # callers[q].tableName
          /\ callers[p].got = callers[q].got
    /\ Len(heap) = 2

(***************************************************************************)
(* Enum type names across calls.                                           *)
(***************************************************************************)
EnumSuffix == <<"E","n","u","m">>
\* Capitalize(T) + Capitalize(C) + "Enum" for the names of the last call
NameFromCall(call) == capitalize(call.tableName) \o capitalize(call.columnName) \o EnumSuffix

MapsEnum(call) == call.op = "map" /\ ~call.threw /\ IsEnumColumn(ElementOf(call.column))

\* C13 (amended): a call that maps an enum column not yet in the registry
\* returns a type named Capitalize(T) + Capitalize(C) + "Enum" after its own
\* table and column names; a call on a column already in the registry
\* returns the registered type under the name it already had, whatever names
\* the call passes.
C13_NameStep ==
    MapsEnum(last') =>
        IF ElementOf(last'.column) \in DOMAIN enumMap
        THEN heap'[last'.type.obj].name = heap[enumMap[ElementOf(last'.column)]].name
        ELSE heap'[last'.type.obj].name = NameFromCall(last')

C13_NameFromFirstCall == [][C13_NameStep]_vars

\* C13 (as claimed): the returned enum type is always named after the table
\* and column names of the call that returned it
C13_NameFromThisCall ==
    MapsEnum(last) => heap[last.type.obj].name = NameFromCall(last)

\* C13 witness: the reaction type column mapped under table name reaction
\* came back as the type built when it was first mapped under table name user
C13_Witness ==
    /\ MapsEnum(last)
    /\ last.column = reactionTypeColumn
    /\ last.tableName = reactionName
    /\ heap[last.type.obj].name = <<"U","s","e","r","T","y","p","e","E","n","u","m">>

(***************************************************************************)
(* The resolver on nodes that select nothing.                              *)
(***************************************************************************)
\* absent, of neither shape, or of a known shape without any field
SelectsNothing(node) ==
    \/ node.shape \in {"absent", "other"}
    \/ node.shape = "flat" /\ DOMAIN node.fields = {}
    \/ node.shape = "typed"
         /\ \A i \in 1..Len(node.byType) : DOMAIN node.byType[i].fields = {}

\* C14: every call of extractColumns returns a {columns, relations} result,
\* never an error; for an absent node, a node of neither the flat nor the
\* type-keyed shape, and a node without fields the columns set and the
\* relations map are both empty.
C14_NeverAnError ==
    Extracted =>
        /\ DOMAIN last.result = {"columns", "relations"}
        /\ SelectsNothing(last.node)
              => (last.result.columns = {} /\ DOMAIN last.result.relations = {})

\* C14 witness: a node of neither shape was resolved to the empty result
C14_Witness ==
    /\ Extracted
    /\ last.node.shape = "other"
    /\ last.result = [columns |-> {}, relations |-> << >>]

(***************************************************************************)
(* What a synthesis-time error tells.                                      *)
(***************************************************************************)
Failed(call) == call.op = "map" /\ call.threw

\* C15 (amended): the error of the type mapper is determined by the column
\* descriptor alone: two failing calls in a row on the same column raise the
\* same error under whatever table and column names they were made, the
\* not-implemented message naming the unsupported data type and nothing
\* else.
C15_ErrorStep ==
    (Failed(last) /\ Failed(last') /\ last'.column = last.column) =>
        /\ last'.error = last.error
        /\ ElementOf(last'.column).dataType \notin RecognizedKinds
              => last'.error = <<"Drizzle-GraphQL Error: Type ",
                                 ElementOf(last'.column).dataType, " is not implemented!">>

C15_ErrorNamesTypeOnly == [][C15_ErrorStep]_vars

\* C15 (as claimed): an error identifies the table and column it was raised
\* for, so two failing calls in a row made under different table or column
\* names raise different errors
C15_IdentifiesStep ==
    (Failed(last) /\ Failed(last')
        /\ (last'.tableName # last.tableName \/ last'.columnName # last.columnName))
        => last'.error # last.error

C15_ErrorIdentifiesColumn == [][C15_IdentifiesStep]_vars

\* C15 witness: the custom column failed under table name reaction with the
\* message that names its data type only
C15_Witness ==
    /\ Failed(last)
    /\ last.column = customColumn
    /\ last.tableName = reactionName
    /\ last.error = <<"Drizzle-GraphQL Error: Type ", "custom", " is not implemented!">>

(***************************************************************************)
(* Synthesis in two passes over the relation graph of the test schema,     *)
(* which has cycles (user.posts -> post.author -> user): the first pass    *)
(* registers each table's interface and the names of its concrete types,   *)
(* the second fills in their fields, relation types referred to by name.   *)
(***************************************************************************)
Registered(t) == TypeDef("object", "registered", InterfaceName[t], << >>)

\* the placeholders of table t's concrete types and its interface
RegistrationsOfTable(t, interfaceFields) ==
    LET built == TypesOfTable(t, interfaceFields)
    IN [n \in DOMAIN built |-> IF n = InterfaceName[t] THEN built[n] ELSE Registered(t)]

GraphColumns ==
    { OptionalText, RequiredText,
      Column("string", "SQLiteText", <<LIKE, DISLIKE>>, TRUE, FALSE, FALSE, << >>),
      Column("json", "SQLiteTextJson", << >>, TRUE, FALSE, FALSE, << >>),
      Column("custom", "SQLiteCustomColumn", << >>, TRUE, FALSE, FALSE, << >>) }

InitGraph ==
    /\ enumMap = << >>
    /\ heap = << >>
    /\ last = NoCall
    /\ types = << >>
    /\ callers = << >>
    /\ \E bio \in GraphColumns, postNameColumn \in GraphColumns :
          /\ bio.enumValues = << >> \/ bio # postNameColumn
          /\ tables = TestSchema(bio, postNameColumn)

\* the outcome m of mapping table t's columns, registered
ApplyRegistered(t, m) ==
    /\ enumMap' = m.enumMap
    /\ heap' = m.heap
    /\ IF m.threw
       THEN /\ last' = [op |-> "synthError", table |-> t, error |-> m.error]
            /\ types' = types
       ELSE /\ last' = [op |-> "register", table |-> t, error |-> NoError]
            /\ types' = WithTypes(types, RegistrationsOfTable(t, m.fields))

\* first pass, table t: its interface, and its concrete types by name only
RegisterTable(t) ==
    /\ last.op # "synthError"
    /\ InterfaceName[t] \notin DOMAIN types
    /\ \E m \in {MapTableColumns(tables[t], TableName[t], << >>, enumMap, heap)} :
          ApplyRegistered(t, m)
    /\ UNCHANGED <<tables, callers>>

\* a relation type may be referred to once its fields have been filled in
ReferenceReadyWhenBuilt(name) == name \in DOMAIN types /\ types[name].role # "registered"
\* a relation type may be referred to once it is registered under its name
ReferenceReady(name) == name \in DOMAIN types

\* second pass, table t: the fields of its concrete types, once every
\* table's interface exists
PopulateTable(t) ==
    /\ last.op # "synthError"
    /\ \A u \in DOMAIN tables : InterfaceName[u] \in DOMAIN types
    /\ types[SelectItemName[t]].role = "registered"
    /\ \A e \in {x \in RelationEdges : x.owner = t} : ReferenceReady(e.typeName)
    /\ types' = WithTypes(types, TypesOfTable(t, types[InterfaceName[t]].fields))
    /\ last' = [op |-> "populate", table |-> t, error |-> NoError]
    /\ UNCHANGED <<enumMap, heap, tables, callers>>

NextGraph ==
    \/ \E t \in DOMAIN tables : RegisterTable(t)
    \/ \E t \in DOMAIN tables : PopulateTable(t)

SpecGraph == InitGraph /\ [][NextGraph]_vars

\* the synthesis loop keeps running until nothing is left to do
SpecGraphFair == SpecGraph /\ WF_vars(NextGraph)

AllTypeNames ==
    UNION { {InterfaceName[t], SelectItemName[t], ItemName[t]} : t \in DOMAIN TableName }
    \cup {e.typeName : e \in RelationEdges}

\* the named types a type's fields refer to
ReferencesOf(type) ==
    {type.fields[f].type.base : f \in DOMAIN type.fields} \cap AllTypeNames

SynthesisComplete ==
    /\ DOMAIN types = AllTypeNames
    /\ \A n \in DOMAIN types : types[n].role # "registered"
    /\ \A n \in DOMAIN types : ReferencesOf(types[n]) \subseteq DOMAIN types

\* C16: synthesis over the cyclic relation graph of the test schema comes to
\* an end: either the type mapper's error aborted it, or the registry holds
\* exactly one type per name (4 interfaces, 4 SelectItem, 4 Item and 8
\* relation types), every one with its fields filled in and every relation
\* field naming a type of the registry; and it stays so.
C16_SynthesisTerminates ==
    <>[](last.op = "synthError" \/ (SynthesisComplete /\ Cardinality(DOMAIN types) = 20))

\* C16 witness: synthesis is complete and the cycle user.posts -> post.author
\* is closed by name
C16_Witness ==
    /\ SynthesisComplete
    /\ types["UserPostsRelation"].fields[<<"a","u","t","h","o","r">>].type.base
          = "PostAuthorRelation"
    /\ types["PostAuthorRelation"].fields[<<"p","o","s","t","s">>].type.base
          = "UserPostsRelation"

(***************************************************************************)
(* Array columns.                                                          *)
(***************************************************************************)
FlatFloatSubtypes == {"PgVector", "PgGeometry"}
ListOfNonNull(type) == [type EXCEPT !.wrap = <<"List", "NonNull">> \o @]
\* the element descriptor mapped by the same rules, on the registry the call
\* started from
ElementMapping(call) ==
    columnToGraphQLCore(call.column.baseColumn[1], call.columnName, call.tableName,
                        call.isInput, << >>, << >>)
ArrayCall == last.op = "map" /\ last.column.dataType = "array"

PlainJsonCall ==
    /\ last.op = "map"
    /\ last.column.dataType = "json"
    /\ last.column.columnType \notin {"PgGeometryObject", "SQLiteTextJson"}

\* C18: a json column that is neither a geometry point nor a serialized-text
\* JSON column maps (under the nullability wrapper) to the string scalar
\* with description JSON, whether or not its name matches the
\* collection-naming pattern: never to a list of strings, never to the JSON
\* scalar.
C18_PlainJsonIsString ==
    PlainJsonCall =>
        /\ ~last.threw
        /\ StripNonNull(last.type) = T(<< >>, "String", 0)
        /\ last.description = <<"JSON">>

\* C18 witness: a not-null jsonb column named tags was mapped to String!
C18_Witness ==
    /\ PlainJsonCall
    /\ last.column.columnType = "PgJsonb"
    /\ last.columnName = <<"t","a","g","s">>
    /\ MatchesCollectionPattern(last.columnName)
    /\ last.type = T(<<"NonNull">>, "String", 0)
    /\ last.description = <<"JSON">>

====
